---- MODULE Spec2Model ----
(***************************************************************************)
(* Order lifecycle and access control of the Set Aside backend.            *)
(*                                                                         *)
(* The store (users, products, orders, order_items tables with their       *)
(* constraints and triggers) is the state; every service method is one     *)
(* action.  A request that fails leaves the store alone and only records   *)
(* its HTTP response.                                                      *)
(***************************************************************************)
EXTENDS Integers, Sequences, FiniteSets, TLC

\* ------------------------------------------------------------------ bounds
MaxOrders == 1        \* orders ever created in a behaviour
MaxItems == 2         \* order_items rows ever inserted in a behaviour
MaxQuantity == 2      \* largest quantity a request asks for
MaxRowQuantity == 3   \* cap on the quantity a row may grow to by merging
MaxListLen == 2       \* longest items list given to create
MaxOrdersWide == 2    \* orders ever created where several orders coexist
MaxRegistered == 2    \* users ever registered in a behaviour
MaxInflight == 2      \* requests that may be between their reads and write

NULL == "null"

\* ------------------------------------------------------------------- users
Users == {"cust1", "cust2", "cashier1", "admin1"}

UserRole(u) ==
    CASE u = "cashier1" -> "cashier"
      [] u = "admin1" -> "admin"
      [] OTHER -> "customer"

Staff == {u \in Users : UserRole(u) # "customer"}

\* --------------------------------------------------------- request domains
ProductIds == {"p1", "p2", "p3"}
MissingProduct == "p0"
RequestProductIds == ProductIds \cup {MissingProduct}
Prices == {1, 2}
NullStock == 0 - 1     \* stock_quantity IS NULL
Quantities == 1..MaxQuantity
OrderIds == 1..MaxOrders
ItemIds == 1..MaxItems
NotesValues == {"n1"}

ItemDtos == [product_id : RequestProductIds, quantity : Quantities]

ItemLists == UNION {[1..n -> ItemDtos] : n \in 0..MaxListLen}

\* -------------------------------------------------------------------- enums
OrderStatus(f) ==
    IF f = "five_stage"
    THEN {"pending", "preparing", "ready", "pickedup", "completed"}
    ELSE {"pending", "preparing", "ready", "picked_up"}

ORDER_STATUS_TRANSITIONS_strict(s) ==
    CASE s = "pending" -> {"preparing"}
      [] s = "preparing" -> {"ready"}
      [] s = "ready" -> {"picked_up"}
      [] OTHER -> {}

ORDER_STATUS_TRANSITIONS_five_stage_fourOnly(s) ==
    CASE s = "pending" -> {"preparing"}
      [] s = "preparing" -> {"ready"}
      [] s = "ready" -> {"pickedup"}
      [] OTHER -> {}

ORDER_STATUS_TRANSITIONS_five_stage(s) ==
    CASE s = "pending" -> {"preparing"}
      [] s = "preparing" -> {"ready"}
      [] s = "ready" -> {"pickedup"}
      [] s = "pickedup" -> {"completed"}
      [] OTHER -> {}

ORDER_STATUS_TRANSITIONS_simplified_noSkip(s) ==
    CASE s = "pending" -> {"preparing"}
      [] s = "preparing" -> {"ready"}
      [] s = "ready" -> {"picked_up"}
      [] OTHER -> {}

ORDER_STATUS_TRANSITIONS_simplified(s) ==
    CASE s = "pending" -> {"preparing", "ready"}
      [] s = "preparing" -> {"ready"}
      [] s = "ready" -> {"picked_up"}
      [] OTHER -> {}

ORDER_STATUS_TRANSITIONS(f, s) ==
    CASE f = "five_stage" -> ORDER_STATUS_TRANSITIONS_five_stage(s)
      [] f = "simplified" -> ORDER_STATUS_TRANSITIONS_simplified(s)
      [] OTHER -> ORDER_STATUS_TRANSITIONS_strict(s)

isValidStatusTransition_skip(f, currentStatus, newStatus) ==
    \/ newStatus \in ORDER_STATUS_TRANSITIONS(f, currentStatus)
    \/ (currentStatus = "pending" /\ newStatus = "ready")

isValidStatusTransition(f, currentStatus, newStatus) ==
    newStatus \in ORDER_STATUS_TRANSITIONS(f, currentStatus)

\* ------------------------------------------------------------------- state
VARIABLES
    flow,         \* which enums module the build links
    inflight,     \* requests between their reads and their write
    users,        \* users table: id -> row
    tokens,       \* bearer tokens issued so far (their payloads)
    products,     \* products table: id -> row
    orders,       \* orders table: id -> row
    items,        \* order_items table: set of rows
    nextOrderId,  \* next fresh order id
    nextItemId,   \* next fresh order_items id
    response      \* the last request and its HTTP response

vars ==
    <<flow, inflight, users, tokens, products, orders, items, nextOrderId, nextItemId,
      response>>

\* ------------------------------------------------------------ store helpers
RECURSIVE SumOf(_, _)
SumOf(f, S) ==
    IF S = {} THEN 0
    ELSE LET x == CHOOSE y \in S : TRUE IN f[x] + SumOf(f, S \ {x})

ItemsOf(its, oid) == {r \in its : r.order_id = oid}

SubtotalSum(its, oid) ==
    LET rows == ItemsOf(its, oid)
        ids == {r.id : r \in rows}
        sub == [i \in ids |-> (CHOOSE r \in rows : r.id = i).subtotal]
    IN SumOf(sub, ids)

\* AFTER INSERT/UPDATE/DELETE ON order_items
recalculate_order_total_stale(ords, its, oid) == ords

recalculate_order_total(ords, its, oid) ==
    IF oid \in DOMAIN ords
    THEN [ords EXCEPT ![oid].total_amount = SubtotalSum(its, oid)]
    ELSE ords

\* BEFORE UPDATE ON orders: TRUE when the row update is let through
validate_order_status_transition(oldStatus, newStatus) ==
    \/ oldStatus = newStatus
    \/ (oldStatus = "pending" /\ newStatus = "preparing")
    \/ (oldStatus = "preparing" /\ newStatus = "ready")
    \/ (oldStatus = "ready" /\ newStatus = "picked_up")

\* --------------------------------------------------------------- responses
Result(s, m) == [status |-> s, message |-> m]

OK == Result(200, "OK")

\* A store is the part of the state the order and item services write.
Store(ords, its, nid) == [orders |-> ords, items |-> its, nextItemId |-> nid]

Outcome(st, res) == [st |-> st, res |-> res]

\* ------------------------------------------------------- OrdersRepository
\* query parameters of GET /orders: page and limit default to 1 and 10, an
\* absent status or customer_id filter is ""
DefaultLimit == 10

ListQueries ==
    [page : {1, 2}, limit : {1, DefaultLimit}, status : {"", "pending"},
     customer_id : {"", "cust2"}]

\* .order('created_at', { ascending: false }): ids grow with creation time
RECURSIVE NewestFirst(_)
NewestFirst(ids) ==
    IF ids = {} THEN <<>>
    ELSE LET m == CHOOSE i \in ids : \A j \in ids : j <= i
         IN <<m>> \o NewestFirst(ids \ {m})

\* .range(offset, offset + limit - 1)
Range(seq, offset, limit) ==
    LET last == IF offset + limit < Len(seq) THEN offset + limit ELSE Len(seq)
    IN SubSeq(seq, offset + 1, last)

\* a selected order row with its embedded items
OrderWithDetails(ords, its, id) ==
    [id |-> id, customer_id |-> ords[id].customer_id,
     status |-> ords[id].status, total_amount |-> ords[id].total_amount,
     items |-> {r \in its : r.order_id = id}]

ListResult(ords, its, ids, page, limit) ==
    LET seq == Range(NewestFirst(ids), (page - 1) * limit, limit)
    IN [data |-> [k \in DOMAIN seq |-> OrderWithDetails(ords, its, seq[k])],
        total |-> Cardinality(ids)]

OrdersRepository_findAll(ords, its, options) ==
    ListResult(ords, its,
        {i \in DOMAIN ords :
            /\ options.status # "" => ords[i].status = options.status
            /\ options.customer_id # ""
                  => ords[i].customer_id = options.customer_id},
        options.page, options.limit)

OrdersRepository_findByCustomerId(ords, its, customerId, options) ==
    ListResult(ords, its,
        {i \in DOMAIN ords :
            /\ ords[i].customer_id = customerId
            /\ options.status # "" => ords[i].status = options.status},
        options.page, options.limit)

OrdersRepository_create(ords, id, customer_id, notes) ==
    [i \in DOMAIN ords \cup {id} |->
        IF i = id
        THEN [customer_id |-> customer_id, status |-> "pending",
              total_amount |-> 0, notes |-> notes, pickup_time |-> NULL,
              prepared_by |-> NULL]
        ELSE ords[i]]

OrdersRepository_update(ords, id, updateData) ==
    [ords EXCEPT ![id] =
        [f \in DOMAIN ords[id] |->
            IF f \in DOMAIN updateData THEN updateData[f] ELSE ords[id][f]]]

\* The status trigger of the schema is installed in the build whose enum is
\* the schema's; the other builds, and the deployment that ran the fix
\* script ("trigger_dropped"), run with the trigger dropped.
TriggerInstalled(f) == f = "strict"

OrdersRepository_updateStatus_firstPreparer(f, ords, id, status, preparedBy) ==
    IF TriggerInstalled(f)
       /\ ~validate_order_status_transition(ords[id].status, status)
    THEN [ok |-> FALSE, orders |-> ords]
    ELSE [ok |-> TRUE,
          orders |-> [ords EXCEPT ![id].status = status,
                                  ![id].prepared_by =
                                      IF ords[id].prepared_by = NULL
                                      THEN preparedBy
                                      ELSE ords[id].prepared_by]]

OrdersRepository_updateStatus(f, ords, id, status, preparedBy) ==
    IF TriggerInstalled(f)
       /\ ~validate_order_status_transition(ords[id].status, status)
    THEN [ok |-> FALSE, orders |-> ords]
    ELSE [ok |-> TRUE,
          orders |-> [ords EXCEPT ![id].status = status,
                                  ![id].prepared_by = preparedBy]]

\* ON DELETE CASCADE from order_items.order_id
OrdersRepository_delete(st, id) ==
    Store([i \in DOMAIN st.orders \ {id} |-> st.orders[i]],
          {r \in st.items : r.order_id # id}, st.nextItemId)

\* --------------------------------------------------- OrderItemsRepository
findById(its, id) == {r \in its : r.id = id}

\* .single(): a row only when exactly one row matches
findByOrderAndProduct(its, orderId, productId) ==
    LET rows == {r \in its : r.order_id = orderId /\ r.product_id = productId}
    IN IF Cardinality(rows) = 1 THEN rows ELSE {}

\* idx_order_items_unique_product and the order_id foreign key reject the
\* insert; otherwise the row is stored and the total trigger runs.
OrderItemsRepository_create(st, itemData) ==
    IF \/ itemData.order_id \notin DOMAIN st.orders
       \/ \E r \in st.items : /\ r.order_id = itemData.order_id
                              /\ r.product_id = itemData.product_id
    THEN [ok |-> FALSE, st |-> st]
    ELSE LET row == [id |-> st.nextItemId,
                     order_id |-> itemData.order_id,
                     product_id |-> itemData.product_id,
                     quantity |-> itemData.quantity,
                     unit_price |-> itemData.unit_price,
                     subtotal |-> itemData.quantity * itemData.unit_price]
             its == st.items \cup {row}
         IN [ok |-> TRUE,
             st |-> Store(recalculate_order_total(st.orders, its, row.order_id),
                          its, st.nextItemId + 1)]

OrderItemsRepository_update(st, id, updateData) ==
    LET old == CHOOSE r \in st.items : r.id = id
        new == [f \in DOMAIN old |->
                   IF f \in DOMAIN updateData THEN updateData[f] ELSE old[f]]
        its == (st.items \ {old}) \cup {new}
    IN Store(recalculate_order_total(st.orders, its, new.order_id),
             its, st.nextItemId)

OrderItemsRepository_delete(st, id) ==
    LET old == CHOOSE r \in st.items : r.id = id
        its == st.items \ {old}
    IN Store(recalculate_order_total(st.orders, its, old.order_id),
             its, st.nextItemId)

\* ----------------------------------------------------------- OrdersService
validateOrderAccess_noOwner(ords, orderId, user, requirePending) ==
    IF orderId \notin DOMAIN ords
    THEN Result(404, "Order not found")
    ELSE IF requirePending /\ ords[orderId].status # "pending"
    THEN Result(400, "This action is only allowed for pending orders")
    ELSE OK

validateOrderAccess_staffAnyStatus(ords, orderId, user, requirePending) ==
    IF orderId \notin DOMAIN ords
    THEN Result(404, "Order not found")
    ELSE IF UserRole(user) = "customer" /\ ords[orderId].customer_id # user
    THEN Result(403, "You can only access your own orders")
    ELSE IF requirePending /\ UserRole(user) = "customer"
            /\ ords[orderId].status # "pending"
    THEN Result(400, "This action is only allowed for pending orders")
    ELSE OK

validateOrderAccess_pendingFirst(ords, orderId, user, requirePending) ==
    IF orderId \notin DOMAIN ords
    THEN Result(404, "Order not found")
    ELSE IF requirePending /\ ords[orderId].status # "pending"
    THEN Result(400, "This action is only allowed for pending orders")
    ELSE IF UserRole(user) = "customer" /\ ords[orderId].customer_id # user
    THEN Result(403, "You can only access your own orders")
    ELSE OK

validateOrderAccess(ords, orderId, user, requirePending) ==
    IF orderId \notin DOMAIN ords
    THEN Result(404, "Order not found")
    ELSE IF UserRole(user) = "customer" /\ ords[orderId].customer_id # user
    THEN Result(403, "You can only access your own orders")
    ELSE IF requirePending /\ ords[orderId].status # "pending"
    THEN Result(400, "This action is only allowed for pending orders")
    ELSE OK

\* ------------------------------------------------------- OrderItemsService
StockOrInfinity_unchecked(stock_quantity, quantity) == quantity

\* product.stock_quantity ?? Infinity
StockOrInfinity(stock_quantity, quantity) ==
    IF stock_quantity = NullStock THEN quantity ELSE stock_quantity

\* null < n in JavaScript compares 0 < n
StockAsNumber(stock_quantity) ==
    IF stock_quantity = NullStock THEN 0 ELSE stock_quantity

MergedSubtotal_livePrice(newQuantity, existingItem, product) ==
    newQuantity * product.price

MergedSubtotal(newQuantity, existingItem, product) ==
    newQuantity * existingItem.unit_price

MergeExisting_overwrite(st, existingItem, createDto, product) ==
    OrderItemsRepository_update(st, existingItem.id,
        [quantity |-> createDto.quantity,
         subtotal |-> MergedSubtotal(createDto.quantity, existingItem, product)])

MergeExisting(st, existingItem, createDto, product) ==
    LET newQuantity == existingItem.quantity + createDto.quantity
        newSubtotal == MergedSubtotal(newQuantity, existingItem, product)
    IN OrderItemsRepository_update(st, existingItem.id,
           [quantity |-> newQuantity, subtotal |-> newSubtotal])

OrderItemsService_create(st, prods, orderId, createDto, user, skipValidation) ==
    LET access == IF skipValidation THEN OK
                  ELSE validateOrderAccess(st.orders, orderId, user, TRUE)
    IN
    IF access.status # 200 THEN Outcome(st, access)
    ELSE IF createDto.product_id \notin DOMAIN prods
    THEN Outcome(st, Result(404, "Product not found"))
    ELSE
    LET product == prods[createDto.product_id]
        existing == findByOrderAndProduct(st.items, orderId, createDto.product_id)
    IN
    IF ~product.is_available
    THEN Outcome(st, Result(400, "Product is not available"))
    ELSE IF StockOrInfinity(product.stock_quantity, createDto.quantity)
               < createDto.quantity
    THEN Outcome(st, Result(400, "Insufficient stock"))
    ELSE IF existing # {}
    THEN Outcome(MergeExisting(st, CHOOSE r \in existing : TRUE,
                               createDto, product),
                 Result(201, "OK"))
    ELSE LET ins == OrderItemsRepository_create(st,
                        [order_id |-> orderId,
                         product_id |-> createDto.product_id,
                         quantity |-> createDto.quantity,
                         unit_price |-> product.price])
         IN IF ins.ok THEN Outcome(ins.st, Result(201, "OK"))
            ELSE Outcome(st, Result(500, "Internal server error"))

ItemUpdateData(updateDto, orderItem, product) ==
    IF updateDto.quantity # 0
    THEN [quantity |-> updateDto.quantity,
          subtotal |-> updateDto.quantity * orderItem.unit_price]
    ELSE <<>>

OrderItemsService_update(st, prods, orderId, itemId, updateDto, user) ==
    LET access == validateOrderAccess(st.orders, orderId, user, TRUE)
        found == findById(st.items, itemId)
    IN
    IF access.status # 200 THEN Outcome(st, access)
    ELSE IF found = {} THEN Outcome(st, Result(404, "Order item not found"))
    ELSE
    LET orderItem == CHOOSE r \in found : TRUE IN
    IF orderItem.order_id # orderId
    THEN Outcome(st, Result(400, "Order item does not belong to this order"))
    ELSE IF updateDto.quantity # 0 /\ orderItem.product_id \notin DOMAIN prods
    THEN Outcome(st, Result(404, "Product not found"))
    ELSE IF updateDto.quantity # 0
            /\ StockAsNumber(prods[orderItem.product_id].stock_quantity)
                   < updateDto.quantity
    THEN Outcome(st, Result(400, "Insufficient stock"))
    ELSE Outcome(OrderItemsRepository_update(st, itemId,
                     ItemUpdateData(updateDto, orderItem,
                         IF orderItem.product_id \in DOMAIN prods
                         THEN prods[orderItem.product_id]
                         ELSE [price |-> 0])),
                 OK)

OrderItemsService_delete(st, orderId, itemId, user) ==
    LET access == validateOrderAccess(st.orders, orderId, user, TRUE)
        found == findById(st.items, itemId)
    IN
    IF access.status # 200 THEN Outcome(st, access)
    ELSE IF found = {} THEN Outcome(st, Result(404, "Order item not found"))
    ELSE IF (CHOOSE r \in found : TRUE).order_id # orderId
    THEN Outcome(st, Result(400, "Order item does not belong to this order"))
    ELSE Outcome(OrderItemsRepository_delete(st, itemId), Result(204, "OK"))

\* add-item loop of OrdersService.create: a failed add is logged and skipped.
\* acc.st is the store so far, acc.failed the number of failures logged.
RECURSIVE AddItems(_, _, _, _, _)
AddItems_abortOnFailure(acc, prods, orderId, list, user) ==
    IF list = <<>> THEN acc
    ELSE LET out == OrderItemsService_create(acc.st, prods, orderId,
                                             Head(list), user, TRUE)
         IN IF out.res.status # 201
            THEN [st |-> acc.st, failed |-> acc.failed + 1]
            ELSE AddItems([st |-> out.st, failed |-> acc.failed],
                          prods, orderId, Tail(list), user)

AddItems(acc, prods, orderId, list, user) ==
    IF list = <<>> THEN acc
    ELSE LET out == OrderItemsService_create(acc.st, prods, orderId,
                                             Head(list), user, TRUE)
         IN AddItems([st |-> out.st,
                      failed |-> IF out.res.status = 201 THEN acc.failed
                                 ELSE acc.failed + 1],
                     prods, orderId, Tail(list), user)

\* ---------------------------------------------------------------- requests
\* what a request leaves behind: its HTTP response, for create the number
\* of item failures it logged, for a list request the page and the count
\* with the query and the caller they answer
Response(op, user, res) ==
    [op |-> op, role |-> UserRole(user), status |-> res.status,
     message |-> res.message, failed |-> 0, data |-> <<>>, total |-> 0,
     request |-> <<>>]

\* a request handler runs up to its first write in one piece; what it has
\* read by then travels with it until the write is issued
Slots == 1..MaxInflight

Idle ==
    [op |-> "idle", order_id |-> 0, user |-> "", status |-> "",
     dto |-> [product_id |-> "", quantity |-> 0], item_id |-> 0,
     read |-> {}, list |-> <<>>]

\* -------------------------------------------------------------------- Init
InitProducts ==
    [p \in ProductIds |->
        IF p = "p1"
        THEN [price |-> 1, is_available |-> TRUE, stock_quantity |-> 1]
        ELSE IF p = "p2"
        THEN [price |-> 2, is_available |-> TRUE, stock_quantity |-> NullStock]
        ELSE [price |-> 1, is_available |-> FALSE, stock_quantity |-> 3]]

\* bcrypt.hash / bcrypt.compare
Hash(password) == <<"bcrypt", password>>

Compare(password, password_hash) == password_hash = Hash(password)

\* the accounts present before the first request
InitPassword == "Passw0rd"

InitUsers ==
    [u \in Users |->
        [email |-> u, password_hash |-> Hash(InitPassword),
         role |-> UserRole(u), is_active |-> TRUE]]

InitStore ==
    /\ inflight = [s \in Slots |-> Idle]
    /\ users = InitUsers
    /\ tokens = {}
    /\ products = InitProducts
    /\ orders = <<>>
    /\ items = {}
    /\ nextOrderId = 1
    /\ nextItemId = 1
    /\ response = [op |-> "none", role |-> "", status |-> 0, message |-> "",
                   failed |-> 0, data |-> <<>>, total |-> 0, request |-> <<>>]

Init ==
    /\ flow = "strict"
    /\ InitStore

\* ----------------------------------------------------------------- actions
CreatedCustomer_fixed(user) == "cust1"

CreatedCustomer(user) == user

OrdersService_createWithin(cap, user, notes, list) ==
    /\ nextOrderId <= cap
    /\ nextItemId + Len(list) - 1 <= MaxItems
    /\ \E acc \in {AddItems([st |-> Store(OrdersRepository_create(orders,
                                             nextOrderId,
                                             CreatedCustomer(user), notes),
                                         items, nextItemId),
                          failed |-> 0],
                         products, nextOrderId, list, user)} :
          /\ \A r \in acc.st.items : r.quantity <= MaxRowQuantity
          /\ orders' = acc.st.orders
          /\ items' = acc.st.items
          /\ nextItemId' = acc.st.nextItemId
          /\ nextOrderId' = nextOrderId + 1
          /\ response' = [Response("create", user, Result(201, "OK"))
                             EXCEPT !.failed = acc.failed]
    /\ UNCHANGED <<users, tokens, flow, inflight, products>>

OrdersService_create(user, notes, list) ==
    OrdersService_createWithin(MaxOrders, user, notes, list)

findAllResult_unscoped(ords, its, query, user) ==
    OrdersRepository_findAll(ords, its,
        [page |-> query.page, limit |-> query.limit,
         status |-> query.status, customer_id |-> query.customer_id])

findAllResult(ords, its, query, user) ==
    IF UserRole(user) = "customer"
    THEN OrdersRepository_findByCustomerId(ords, its, user,
             [page |-> query.page, limit |-> query.limit,
              status |-> query.status])
    ELSE OrdersRepository_findAll(ords, its,
             [page |-> query.page, limit |-> query.limit,
              status |-> query.status, customer_id |-> query.customer_id])

OrdersService_findAll(query, user) ==
    \E result \in {findAllResult(orders, items, query, user)} :
       /\ response' = [Response("findAll", user, OK)
                          EXCEPT !.data = result.data, !.total = result.total,
                                 !.request = [query |-> query, user |-> user]]
       /\ UNCHANGED <<users, tokens, flow, inflight, products, orders, items,
                      nextOrderId, nextItemId>>

OrdersService_findById(id, user) ==
    /\ response' = Response("findById", user,
           IF id \notin DOMAIN orders
           THEN Result(404, "Order not found")
           ELSE IF UserRole(user) = "customer" /\ orders[id].customer_id # user
           THEN Result(403, "You can only view your own orders")
           ELSE OK)
    /\ UNCHANGED <<users, tokens, flow, inflight, products, orders, items, nextOrderId, nextItemId>>

updateCheck_pendingForAll(ords, id, user) ==
    IF id \notin DOMAIN ords
    THEN Result(404, "Order not found")
    ELSE IF UserRole(user) = "customer" /\ ords[id].customer_id # user
    THEN Result(403, "You can only update your own orders")
    ELSE IF ords[id].status # "pending"
    THEN Result(400, "Only pending orders can be updated")
    ELSE OK

updateCheck(ords, id, user) ==
    IF id \notin DOMAIN ords
    THEN Result(404, "Order not found")
    ELSE IF UserRole(user) = "customer" /\ ords[id].customer_id # user
    THEN Result(403, "You can only update your own orders")
    ELSE IF UserRole(user) = "customer" /\ ords[id].status # "pending"
    THEN Result(400, "Only pending orders can be updated")
    ELSE OK

OrdersService_update(id, updateDto, user) ==
    \E res \in {updateCheck(orders, id, user)} :
       /\ orders' = IF res.status = 200
                    THEN OrdersRepository_update(orders, id, updateDto)
                    ELSE orders
       /\ response' = Response("update", user, res)
       /\ UNCHANGED <<users, tokens, flow, inflight, products, items, nextOrderId,
                      nextItemId>>

updateStatusCheck(f, ords, id, newStatus, user) ==
    IF id \notin DOMAIN ords
    THEN Result(404, "Order not found")
    ELSE IF ~isValidStatusTransition(f, ords[id].status, newStatus)
    THEN Result(400, "Invalid status transition")
    ELSE IF UserRole(user) = "customer"
    THEN Result(403, "Only staff can update order status")
    ELSE OK

OrdersService_updateStatus(id, newStatus, user) ==
    \E res \in {updateStatusCheck(flow, orders, id, newStatus, user)} :
       /\ IF res.status = 200
          THEN \E upd \in {OrdersRepository_updateStatus(flow, orders, id,
                                                          newStatus, user)} :
                  /\ orders' = upd.orders
                  /\ response' = Response("updateStatus", user,
                         IF upd.ok THEN OK
                         ELSE Result(500, "Internal server error"))
          ELSE /\ UNCHANGED orders
               /\ response' = Response("updateStatus", user, res)
       /\ UNCHANGED <<users, tokens, flow, inflight, products, items, nextOrderId, nextItemId>>

deleteCheck_customerOnly(ords, id, user) ==
    IF id \notin DOMAIN ords
    THEN Result(404, "Order not found")
    ELSE IF UserRole(user) = "customer" /\ ords[id].customer_id # user
    THEN Result(403, "You can only delete your own orders")
    ELSE IF UserRole(user) = "customer" /\ ords[id].status # "pending"
    THEN Result(400, "Only pending orders can be deleted")
    ELSE Result(204, "OK")

deleteCheck(ords, id, user) ==
    IF id \notin DOMAIN ords
    THEN Result(404, "Order not found")
    ELSE IF UserRole(user) = "customer" /\ ords[id].customer_id # user
    THEN Result(403, "You can only delete your own orders")
    ELSE IF ords[id].status # "pending"
    THEN Result(400, "Only pending orders can be deleted")
    ELSE Result(204, "OK")

OrdersService_delete(id, user) ==
    \E res \in {deleteCheck(orders, id, user)} :
       /\ IF res.status = 204
          THEN \E st \in {OrdersRepository_delete(
                               Store(orders, items, nextItemId), id)} :
                  orders' = st.orders /\ items' = st.items
          ELSE UNCHANGED <<orders, items>>
       /\ response' = Response("delete", user, res)
       /\ UNCHANGED <<users, tokens, flow, inflight, products, nextOrderId, nextItemId>>

OrderItemsService_findByOrderId(orderId, user) ==
    /\ response' = Response("findByOrderId", user,
                            validateOrderAccess(orders, orderId, user, FALSE))
    /\ UNCHANGED <<users, tokens, flow, inflight, products, orders, items, nextOrderId, nextItemId>>

AddItem(orderId, createDto, user) ==
    \E out \in {OrderItemsService_create(Store(orders, items, nextItemId),
                   products, orderId, createDto, user, FALSE)} :
       /\ out.st.nextItemId <= MaxItems + 1
       /\ \A r \in out.st.items : r.quantity <= MaxRowQuantity
       /\ orders' = out.st.orders
       /\ items' = out.st.items
       /\ nextItemId' = out.st.nextItemId
       /\ response' = Response("addItem", user, out.res)
       /\ UNCHANGED <<users, tokens, flow, inflight, products, nextOrderId>>

UpdateItem(orderId, itemId, updateDto, user) ==
    \E out \in {OrderItemsService_update(Store(orders, items, nextItemId),
                   products, orderId, itemId, updateDto, user)} :
       /\ orders' = out.st.orders
       /\ items' = out.st.items
       /\ response' = Response("updateItem", user, out.res)
       /\ UNCHANGED <<users, tokens, flow, inflight, products, nextOrderId, nextItemId>>

RemoveItem(orderId, itemId, user) ==
    \E out \in {OrderItemsService_delete(Store(orders, items, nextItemId),
                   orderId, itemId, user)} :
       /\ orders' = out.st.orders
       /\ items' = out.st.items
       /\ response' = Response("removeItem", user, out.res)
       /\ UNCHANGED <<users, tokens, flow, inflight, products, nextOrderId, nextItemId>>

\* product edits requested in a behaviour: p1 is repriced
ProductUpdateRequests == {<<"p1", [price |-> v]>> : v \in Prices}

ProductsService_update(id, updateDto) ==
    /\ id \in DOMAIN products
    /\ products' = [products EXCEPT ![id] =
           [f \in DOMAIN products[id] |->
               IF f \in DOMAIN updateDto THEN updateDto[f]
               ELSE products[id][f]]]
    /\ response' = Response("updateProduct", "admin1", OK)
    /\ UNCHANGED <<users, tokens, flow, inflight, orders, items, nextOrderId, nextItemId>>

Next ==
    \/ \E u \in Users, n \in NotesValues, l \in ItemLists :
           OrdersService_create(u, n, l)
    \/ \E u \in Users, o \in OrderIds : OrdersService_findById(o, u)
    \/ \E u \in Users, o \in OrderIds, n \in NotesValues :
           OrdersService_update(o, [notes |-> n], u)
    \/ \E u \in Users, o \in OrderIds, s \in OrderStatus(flow) :
           OrdersService_updateStatus(o, s, u)
    \/ \E u \in Users, o \in OrderIds : OrdersService_delete(o, u)
    \/ \E u \in Users, o \in OrderIds : OrderItemsService_findByOrderId(o, u)
    \/ \E u \in Users, o \in OrderIds, d \in ItemDtos : AddItem(o, d, u)
    \/ \E u \in Users, o \in OrderIds, i \in ItemIds,
          q \in 0..MaxQuantity : UpdateItem(o, i, [quantity |-> q], u)
    \/ \E u \in Users, o \in OrderIds, i \in ItemIds : RemoveItem(o, i, u)
    \/ \E r \in ProductUpdateRequests : ProductsService_update(r[1], r[2])

Spec == Init /\ [][Next]_vars

\* ------------------------------------------------ several orders side by side
\* Two customers place orders without items, any of the three actors lists
\* orders and adds, changes and removes rows of product p1 one unit at a
\* time, and the admin starts preparing an order.
WideUsers == {"cust1", "cust2", "admin1"}

WideOrderIds == 1..MaxOrdersWide

WideItemDto == [product_id |-> "p1", quantity |-> 1]

NextWide ==
    \/ \E u \in WideUsers \ Staff, n \in NotesValues :
           OrdersService_createWithin(MaxOrdersWide, u, n, <<>>)
    \/ \E u \in WideUsers, q \in ListQueries : OrdersService_findAll(q, u)
    \/ \E o \in WideOrderIds :
           OrdersService_updateStatus(o, "preparing", "admin1")
    \/ \E u \in WideUsers, o \in WideOrderIds : AddItem(o, WideItemDto, u)
    \/ \E u \in WideUsers, o \in WideOrderIds, i \in ItemIds :
           UpdateItem(o, i, [quantity |-> 1], u)
    \/ \E u \in WideUsers, o \in WideOrderIds, i \in ItemIds :
           RemoveItem(o, i, u)

SpecWide == Init /\ [][NextWide]_vars

\* ------------------------------------------------------ one order's lifecycle
\* One order, placed empty or with one unit of p2, is read, edited, moved
\* through its statuses and deleted by any of the four actors.
LifecycleLists == {<<>>, <<[product_id |-> "p2", quantity |-> 1]>>}

UpdateOrderDtos ==
    {[notes |-> "n2"], [pickup_time |-> "t1"],
     [notes |-> "n2", pickup_time |-> "t1"]}

NextLifecycle ==
    \/ \E u \in Users, n \in NotesValues, l \in LifecycleLists :
           OrdersService_create(u, n, l)
    \/ \E u \in Users, o \in OrderIds : OrdersService_findById(o, u)
    \/ \E u \in Users, o \in OrderIds, d \in UpdateOrderDtos :
           OrdersService_update(o, d, u)
    \/ \E u \in Users, o \in OrderIds, s \in OrderStatus(flow) :
           OrdersService_updateStatus(o, s, u)
    \/ \E u \in Users, o \in OrderIds : OrdersService_delete(o, u)

SpecLifecycle == Init /\ [][NextLifecycle]_vars

InitSimplified ==
    /\ flow = "simplified"
    /\ InitStore

SpecSimplified == InitSimplified /\ [][NextLifecycle]_vars

InitFiveStage ==
    /\ flow = "five_stage"
    /\ InitStore

SpecFiveStage == InitFiveStage /\ [][NextLifecycle]_vars

\* ------------------------------------------------------- accounts and tokens
RegisterEmails == {"a@x", "A@x", "b@x"}

\* String.prototype.toLowerCase on the addresses used here
toLowerCase(email) == IF email = "A@x" THEN "a@x" ELSE email

WrongPassword == "Wrong1pw"

RegisterDtos ==
    [email : RegisterEmails, password : {InitPassword}, role : {"", "admin"}]

LoginDtos ==
    [email : {"a@x", "A@x", "admin1"}, password : {InitPassword, WrongPassword}]

AdminUpdateUserDtos ==
    {[is_active |-> FALSE], [is_active |-> TRUE], [role |-> "cashier"]}

\* uuid_generate_v4(): the id given to the n-th registered user
NewUserId(n) ==
    CASE n = 1 -> "u1" [] n = 2 -> "u2" [] n = 3 -> "u3" [] OTHER -> "u4"

Registered(usrs) == DOMAIN usrs \ Users

AuthRepository_emailExists_caseSensitive(usrs, email) ==
    \E i \in DOMAIN usrs : usrs[i].email = email

AuthRepository_emailExists(usrs, email) ==
    \E i \in DOMAIN usrs : usrs[i].email = toLowerCase(email)

AuthRepository_findByEmail(usrs, email) ==
    {i \in DOMAIN usrs : usrs[i].email = toLowerCase(email)}

\* insert into users; email is UNIQUE
AuthRepository_create(usrs, id, userData) ==
    IF \E i \in DOMAIN usrs : usrs[i].email = toLowerCase(userData.email)
    THEN [ok |-> FALSE, users |-> usrs]
    ELSE [ok |-> TRUE,
          users |-> [i \in DOMAIN usrs \cup {id} |->
                       IF i = id
                       THEN [email |-> toLowerCase(userData.email),
                             password_hash |-> userData.password_hash,
                             role |-> IF userData.role = "" THEN "customer"
                                      ELSE userData.role,
                             is_active |-> TRUE]
                       ELSE usrs[i]]]

\* payload of the token signed for a user
generateAuthResponse(id, user) ==
    [sub |-> id, email |-> user.email, role |-> user.role]

AuthResponse(op, res, request) ==
    [op |-> op, role |-> "", status |-> res.status, message |-> res.message,
     failed |-> 0, data |-> <<>>, total |-> 0, request |-> request]

RegisteredRole_fromDto(registerDto) == registerDto.role

RegisteredRole(registerDto) == "customer"

AuthService_register(registerDto) ==
    IF AuthRepository_emailExists(users, registerDto.email)
    THEN /\ response' = AuthResponse("register",
                             Result(409, "Email already registered"),
                             registerDto)
         /\ UNCHANGED <<users, tokens>>
    ELSE /\ Cardinality(Registered(users)) < MaxRegistered
         /\ \E id \in {NewUserId(Cardinality(Registered(users)) + 1)} :
            \E ins \in {AuthRepository_create(users, id,
                            [email |-> registerDto.email,
                             password_hash |-> Hash(registerDto.password),
                             role |-> RegisteredRole(registerDto)])} :
               IF ins.ok
               THEN /\ users' = ins.users
                    /\ tokens' = tokens
                          \cup {generateAuthResponse(id, ins.users[id])}
                    /\ response' =
                          [AuthResponse("register", Result(201, "OK"),
                                        registerDto)
                              EXCEPT !.data =
                                 <<generateAuthResponse(id, ins.users[id])>>]
               ELSE /\ response' = AuthResponse("register",
                                        Result(500, "Internal server error"),
                                        registerDto)
                    /\ UNCHANGED <<users, tokens>>

Register(registerDto) ==
    /\ AuthService_register(registerDto)
    /\ UNCHANGED <<flow, inflight, products, orders, items, nextOrderId, nextItemId>>

loginCheck(usrs, loginDto) ==
    LET found == AuthRepository_findByEmail(usrs, loginDto.email) IN
    IF found = {}
    THEN Result(401, "Invalid email or password")
    ELSE IF ~usrs[CHOOSE i \in found : TRUE].is_active
    THEN Result(401, "Account is deactivated")
    ELSE IF ~Compare(loginDto.password,
                     usrs[CHOOSE i \in found : TRUE].password_hash)
    THEN Result(401, "Invalid email or password")
    ELSE OK

AuthService_login(loginDto) ==
    \E res \in {loginCheck(users, loginDto)} :
       /\ IF res.status = 200
          THEN \E id \in AuthRepository_findByEmail(users, loginDto.email) :
                  /\ tokens' = tokens
                        \cup {generateAuthResponse(id, users[id])}
                  /\ response' =
                        [AuthResponse("login", res, loginDto)
                            EXCEPT !.data =
                               <<generateAuthResponse(id, users[id])>>]
          ELSE /\ response' = AuthResponse("login", res, loginDto)
               /\ UNCHANGED tokens
       /\ UNCHANGED <<users, flow, inflight, products, orders, items, nextOrderId,
                      nextItemId>>

JwtStrategy_validate_anyKnownUser(usrs, payload) ==
    IF payload.sub \notin DOMAIN usrs
    THEN Result(401, "Invalid or expired token")
    ELSE OK

\* the guard every route that is not public runs on the bearer token
JwtStrategy_validate(usrs, payload) ==
    IF payload.sub \notin DOMAIN usrs \/ ~usrs[payload.sub].is_active
    THEN Result(401, "Invalid or expired token")
    ELSE OK

\* GET /auth/me
AuthService_getMe(payload) ==
    /\ response' = AuthResponse("getMe", JwtStrategy_validate(users, payload),
                                [token |-> payload])
    /\ UNCHANGED <<users, tokens, flow, inflight, products, orders, items, nextOrderId,
                   nextItemId>>

\* RolesGuard with @Roles(ADMIN): the role is the one validate read from the
\* users table
updateByIdCheck(usrs, payload, userId) ==
    IF JwtStrategy_validate(usrs, payload).status # 200
    THEN JwtStrategy_validate(usrs, payload)
    ELSE IF usrs[payload.sub].role # "admin"
    THEN Result(403, "Access denied")
    ELSE IF userId \notin DOMAIN usrs
    THEN Result(404, "User not found")
    ELSE OK

\* PATCH /users/:id
UsersService_updateById(payload, userId, updateDto) ==
    \E res \in {updateByIdCheck(users, payload, userId)} :
       /\ users' = IF res.status = 200
                   THEN [users EXCEPT ![userId] =
                           [f \in DOMAIN users[userId] |->
                               IF f \in DOMAIN updateDto THEN updateDto[f]
                               ELSE users[userId][f]]]
                   ELSE users
       /\ response' = AuthResponse("updateById", res,
                           [token |-> payload, id |-> userId])
       /\ UNCHANGED <<tokens, flow, inflight, products, orders, items, nextOrderId,
                      nextItemId>>

NextAuth ==
    \/ \E d \in RegisterDtos : Register(d)
    \/ \E d \in LoginDtos : AuthService_login(d)
    \/ \E t \in tokens : AuthService_getMe(t)
    \/ \E t \in tokens, id \in {"u1", "u3"}, d \in AdminUpdateUserDtos :
           UsersService_updateById(t, id, d)

SpecAuth == Init /\ [][NextAuth]_vars

\* --------------------------------------------- requests that run side by side
\* Every repository call of a handler is one statement of the store, and
\* nothing holds the rows between two calls.  Here a handler runs in two
\* steps: its reads and checks (_read), then, once they pass, the write it
\* issues (_write); steps of other requests may come in between.
InterleavedUsers == {"cust1", "admin1"}

InterleavedLists == {<<>>, <<WideItemDto>>}

\* the request takes the first free slot
Begin(req) ==
    \E s \in Slots :
       /\ inflight[s].op = "idle"
       /\ \A t \in 1..(s - 1) : inflight[t].op # "idle"
       /\ inflight' = [inflight EXCEPT ![s] = req]

End(s) == inflight' = [inflight EXCEPT ![s] = Idle]

Respond(op, req, res) ==
    [Response(op, req.user, res) EXCEPT !.request = req]

InternalError == Result(500, "Internal server error")

\* OrdersService.create: the order row is inserted, then the list is worked
\* off one add per step
OrdersService_create_insert(user, notes, list) ==
    /\ nextOrderId <= MaxOrders
    /\ orders' = OrdersRepository_create(orders, nextOrderId,
                                         CreatedCustomer(user), notes)
    /\ nextOrderId' = nextOrderId + 1
    /\ \E req \in {[Idle EXCEPT !.op = "create", !.order_id = nextOrderId,
                                !.user = user, !.list = list]} :
          IF list = <<>>
          THEN /\ response' = Respond("create", req, Result(201, "OK"))
               /\ UNCHANGED inflight
          ELSE /\ Begin(req)
               /\ UNCHANGED response
    /\ UNCHANGED <<users, tokens, flow, products, items, nextItemId>>

OrdersService_create_addItem(s) ==
    /\ inflight[s].op = "create"
    /\ \E req \in {inflight[s]} :
       \E out \in {OrderItemsService_create(Store(orders, items, nextItemId),
                      products, req.order_id, Head(req.list), req.user,
                      TRUE)} :
          /\ out.st.nextItemId <= MaxItems + 1
          /\ \A r \in out.st.items : r.quantity <= MaxRowQuantity
          /\ orders' = out.st.orders
          /\ items' = out.st.items
          /\ nextItemId' = out.st.nextItemId
          /\ IF Tail(req.list) = <<>>
             THEN /\ End(s)
                  /\ response' = Respond("create", req, Result(201, "OK"))
             ELSE /\ inflight' = [inflight EXCEPT ![s].list = Tail(req.list)]
                  /\ UNCHANGED response
    /\ UNCHANGED <<users, tokens, flow, products, nextOrderId>>

OrdersService_updateStatus_read(id, newStatus, user) ==
    /\ \E res \in {updateStatusCheck(flow, orders, id, newStatus, user)} :
       \E req \in {[Idle EXCEPT !.op = "updateStatus", !.order_id = id,
                                !.user = user, !.status = newStatus]} :
          IF res.status = 200
          THEN Begin(req) /\ UNCHANGED response
          ELSE /\ response' = Respond("updateStatus", req, res)
               /\ UNCHANGED inflight
    /\ UNCHANGED <<users, tokens, flow, products, orders, items, nextOrderId,
                   nextItemId>>

\* update(...).eq('id', id).select().single(): an error when no row is left
OrdersService_updateStatus_write(s) ==
    /\ inflight[s].op = "updateStatus"
    /\ \E req \in {inflight[s]} :
          IF req.order_id \notin DOMAIN orders
          THEN /\ UNCHANGED orders
               /\ response' = Respond("updateStatus", req, InternalError)
          ELSE \E upd \in {OrdersRepository_updateStatus(flow, orders,
                               req.order_id, req.status, req.user)} :
                  /\ orders' = upd.orders
                  /\ response' = Respond("updateStatus", req,
                         IF upd.ok THEN OK ELSE InternalError)
    /\ End(s)
    /\ UNCHANGED <<users, tokens, flow, products, items, nextOrderId,
                   nextItemId>>

OrdersService_delete_read(id, user) ==
    /\ \E res \in {deleteCheck(orders, id, user)} :
       \E req \in {[Idle EXCEPT !.op = "delete", !.order_id = id,
                                !.user = user]} :
          IF res.status = 204
          THEN Begin(req) /\ UNCHANGED response
          ELSE /\ response' = Respond("delete", req, res)
               /\ UNCHANGED inflight
    /\ UNCHANGED <<users, tokens, flow, products, orders, items, nextOrderId,
                   nextItemId>>

\* delete().eq('id', id)
OrdersService_delete_write(s) ==
    /\ inflight[s].op = "delete"
    /\ \E req \in {inflight[s]} :
       \E st \in {OrdersRepository_delete(Store(orders, items, nextItemId),
                                          req.order_id)} :
          /\ orders' = st.orders
          /\ items' = st.items
          /\ response' = Respond("delete", req, Result(204, "OK"))
    /\ End(s)
    /\ UNCHANGED <<users, tokens, flow, products, nextOrderId, nextItemId>>

\* the checks of OrderItemsService.create, up to the lookup of the row
OrderItemsService_create_checks(st, prods, orderId, createDto, user) ==
    LET access == validateOrderAccess(st.orders, orderId, user, TRUE) IN
    IF access.status # 200 THEN access
    ELSE IF createDto.product_id \notin DOMAIN prods
    THEN Result(404, "Product not found")
    ELSE IF ~prods[createDto.product_id].is_available
    THEN Result(400, "Product is not available")
    ELSE IF StockOrInfinity(prods[createDto.product_id].stock_quantity,
                            createDto.quantity) < createDto.quantity
    THEN Result(400, "Insufficient stock")
    ELSE OK

AddItem_read(orderId, createDto, user) ==
    /\ \E res \in {OrderItemsService_create_checks(
                       Store(orders, items, nextItemId), products, orderId,
                       createDto, user)} :
       \E req \in {[Idle EXCEPT !.op = "addItem", !.order_id = orderId,
                                !.user = user, !.dto = createDto,
                                !.read = findByOrderAndProduct(items, orderId,
                                             createDto.product_id)]} :
          IF res.status = 200
          THEN Begin(req) /\ UNCHANGED response
          ELSE /\ response' = Respond("addItem", [req EXCEPT !.read = {}], res)
               /\ UNCHANGED inflight
    /\ UNCHANGED <<users, tokens, flow, products, orders, items, nextOrderId,
                   nextItemId>>

\* the update or the insert OrderItemsService.create ends with; the update
\* writes the quantity computed from the row as it was read
OrderItemsService_create_write(st, prods, req) ==
    IF req.read # {}
    THEN LET existingItem == CHOOSE r \in req.read : TRUE IN
         IF findById(st.items, existingItem.id) = {}
         THEN Outcome(st, InternalError)
         ELSE Outcome(MergeExisting(st, existingItem, req.dto,
                                    prods[req.dto.product_id]),
                      Result(201, "OK"))
    ELSE LET ins == OrderItemsRepository_create(st,
                        [order_id |-> req.order_id,
                         product_id |-> req.dto.product_id,
                         quantity |-> req.dto.quantity,
                         unit_price |-> prods[req.dto.product_id].price])
         IN IF ins.ok THEN Outcome(ins.st, Result(201, "OK"))
            ELSE Outcome(st, InternalError)

AddItem_write(s) ==
    /\ inflight[s].op = "addItem"
    /\ \E req \in {inflight[s]} :
       \E out \in {OrderItemsService_create_write(
                       Store(orders, items, nextItemId), products, req)} :
          /\ out.st.nextItemId <= MaxItems + 1
          /\ \A r \in out.st.items : r.quantity <= MaxRowQuantity
          /\ orders' = out.st.orders
          /\ items' = out.st.items
          /\ nextItemId' = out.st.nextItemId
          /\ response' = Respond("addItem", req, out.res)
    /\ End(s)
    /\ UNCHANGED <<users, tokens, flow, products, nextOrderId>>

\* the checks OrderItemsService.update and delete make on the row they read
ItemChecks(st, prods, orderId, itemId, quantity, user) ==
    LET access == validateOrderAccess(st.orders, orderId, user, TRUE)
        found == findById(st.items, itemId)
    IN
    IF access.status # 200 THEN access
    ELSE IF found = {} THEN Result(404, "Order item not found")
    ELSE IF (CHOOSE r \in found : TRUE).order_id # orderId
    THEN Result(400, "Order item does not belong to this order")
    ELSE IF quantity # 0
            /\ StockAsNumber(
                   prods[(CHOOSE r \in found : TRUE).product_id].stock_quantity)
                  < quantity
    THEN Result(400, "Insufficient stock")
    ELSE OK

UpdateItem_read(orderId, itemId, updateDto, user) ==
    /\ \E res \in {ItemChecks(Store(orders, items, nextItemId), products,
                              orderId, itemId, updateDto.quantity, user)} :
       \E req \in {[Idle EXCEPT !.op = "updateItem", !.order_id = orderId,
                                !.user = user, !.item_id = itemId,
                                !.dto = [product_id |-> "",
                                         quantity |-> updateDto.quantity],
                                !.read = findById(items, itemId)]} :
          IF res.status = 200
          THEN Begin(req) /\ UNCHANGED response
          ELSE /\ response' = Respond("updateItem", [req EXCEPT !.read = {}],
                                      res)
               /\ UNCHANGED inflight
    /\ UNCHANGED <<users, tokens, flow, products, orders, items, nextOrderId,
                   nextItemId>>

UpdateItem_write(s) ==
    /\ inflight[s].op = "updateItem"
    /\ \E req \in {inflight[s]} :
          IF findById(items, req.item_id) = {}
          THEN /\ UNCHANGED <<orders, items>>
               /\ response' = Respond("updateItem", req, InternalError)
          ELSE \E st \in {OrderItemsRepository_update(
                              Store(orders, items, nextItemId), req.item_id,
                              ItemUpdateData(req.dto,
                                  CHOOSE r \in req.read : TRUE,
                                  products))} :
                  /\ orders' = st.orders
                  /\ items' = st.items
                  /\ response' = Respond("updateItem", req, OK)
    /\ End(s)
    /\ UNCHANGED <<users, tokens, flow, products, nextOrderId, nextItemId>>

RemoveItem_read(orderId, itemId, user) ==
    /\ \E res \in {ItemChecks(Store(orders, items, nextItemId), products,
                              orderId, itemId, 0, user)} :
       \E req \in {[Idle EXCEPT !.op = "removeItem", !.order_id = orderId,
                                !.user = user, !.item_id = itemId]} :
          IF res.status = 200
          THEN Begin(req) /\ UNCHANGED response
          ELSE /\ response' = Respond("removeItem", req, res)
               /\ UNCHANGED inflight
    /\ UNCHANGED <<users, tokens, flow, products, orders, items, nextOrderId,
                   nextItemId>>

\* delete().eq('id', id): no error when the row is already gone
RemoveItem_write(s) ==
    /\ inflight[s].op = "removeItem"
    /\ \E req \in {inflight[s]} :
          /\ IF findById(items, req.item_id) = {}
             THEN UNCHANGED <<orders, items>>
             ELSE \E st \in {OrderItemsRepository_delete(
                                 Store(orders, items, nextItemId),
                                 req.item_id)} :
                     orders' = st.orders /\ items' = st.items
          /\ response' = Respond("removeItem", req, Result(204, "OK"))
    /\ End(s)
    /\ UNCHANGED <<users, tokens, flow, products, nextOrderId, nextItemId>>

NextInterleaved ==
    \/ \E u \in InterleavedUsers, n \in NotesValues, l \in InterleavedLists :
           OrdersService_create_insert(u, n, l)
    \/ \E s \in Slots : OrdersService_create_addItem(s)
    \/ \E u \in InterleavedUsers, o \in OrderIds, st \in OrderStatus(flow) :
           OrdersService_updateStatus_read(o, st, u)
    \/ \E s \in Slots : OrdersService_updateStatus_write(s)
    \/ \E u \in InterleavedUsers, o \in OrderIds :
           OrdersService_delete_read(o, u)
    \/ \E s \in Slots : OrdersService_delete_write(s)
    \/ \E u \in InterleavedUsers, o \in OrderIds :
           AddItem_read(o, WideItemDto, u)
    \/ \E s \in Slots : AddItem_write(s)
    \/ \E u \in InterleavedUsers, o \in OrderIds, i \in ItemIds :
           UpdateItem_read(o, i, [quantity |-> 1], u)
    \/ \E s \in Slots : UpdateItem_write(s)
    \/ \E u \in InterleavedUsers, o \in OrderIds, i \in ItemIds :
           RemoveItem_read(o, i, u)
    \/ \E s \in Slots : RemoveItem_write(s)

SpecInterleaved == Init /\ [][NextInterleaved]_vars

\* the same requests against the schema after the fix script that drops the
\* status trigger
InitTriggerDropped ==
    /\ flow = "trigger_dropped"
    /\ InitStore

SpecTriggerDropped == InitTriggerDropped /\ [][NextInterleaved]_vars

\* register side by side: emailExists is awaited, then the insert is issued
InflightRegisters == {s \in Slots : inflight[s].op = "register"}

AuthService_register_read(registerDto) ==
    /\ \E req \in {[Idle EXCEPT !.op = "register", !.dto = registerDto]} :
          IF AuthRepository_emailExists(users, registerDto.email)
          THEN /\ response' = AuthResponse("register",
                                   Result(409, "Email already registered"),
                                   registerDto)
               /\ UNCHANGED inflight
          ELSE /\ Cardinality(Registered(users))
                      + Cardinality(InflightRegisters) < MaxRegistered
               /\ Begin(req)
               /\ UNCHANGED response
    /\ UNCHANGED <<users, tokens, flow, products, orders, items, nextOrderId,
                   nextItemId>>

\* an error of the insert is rethrown as it is; no handler or filter turns
\* it into an HTTP exception
AuthService_register_write(s) ==
    /\ inflight[s].op = "register"
    /\ \E registerDto \in {inflight[s].dto} :
       \E id \in {NewUserId(Cardinality(Registered(users)) + 1)} :
       \E ins \in {AuthRepository_create(users, id,
                       [email |-> registerDto.email,
                        password_hash |-> Hash(registerDto.password),
                        role |-> RegisteredRole(registerDto)])} :
          IF ins.ok
          THEN /\ users' = ins.users
               /\ tokens' = tokens \cup {generateAuthResponse(id, ins.users[id])}
               /\ response' =
                     [AuthResponse("register", Result(201, "OK"), registerDto)
                         EXCEPT !.data =
                            <<generateAuthResponse(id, ins.users[id])>>]
          ELSE /\ response' = AuthResponse("register", InternalError,
                                           registerDto)
               /\ UNCHANGED <<users, tokens>>
    /\ End(s)
    /\ UNCHANGED <<flow, products, orders, items, nextOrderId, nextItemId>>

NextRegisterRace ==
    \/ \E d \in RegisterDtos : AuthService_register_read(d)
    \/ \E s \in Slots : AuthService_register_write(s)
    \/ \E d \in LoginDtos : AuthService_login(d)
    \/ \E t \in tokens : AuthService_getMe(t)

SpecRegisterRace == Init /\ [][NextRegisterRace]_vars

\* ------------------------------------------------- products that are removed
\* ON DELETE RESTRICT from order_items.product_id
ProductsRepository_delete_unrestricted(prods, its, id) ==
    [ok |-> TRUE, products |-> [p \in DOMAIN prods \ {id} |-> prods[p]]]

ProductsRepository_delete(prods, its, id) ==
    IF \E r \in its : r.product_id = id
    THEN [ok |-> FALSE, products |-> prods]
    ELSE [ok |-> TRUE, products |-> [p \in DOMAIN prods \ {id} |-> prods[p]]]

\* DELETE /products/:id behind @Roles(CASHIER, ADMIN)
ProductsService_delete(id, user) ==
    /\ \E del \in {ProductsRepository_delete(products, items, id)} :
          IF UserRole(user) = "customer"
          THEN /\ response' = [Response("deleteProduct", user,
                                   Result(403, "Access denied"))
                                  EXCEPT !.request = [id |-> id]]
               /\ UNCHANGED products
          ELSE IF id \notin DOMAIN products
          THEN /\ response' = [Response("deleteProduct", user,
                                   Result(404, "Product not found"))
                                  EXCEPT !.request = [id |-> id]]
               /\ UNCHANGED products
          ELSE /\ products' = del.products
               /\ response' = [Response("deleteProduct", user,
                                   IF del.ok THEN Result(204, "OK")
                                   ELSE InternalError)
                                  EXCEPT !.request = [id |-> id]]
    /\ UNCHANGED <<users, tokens, flow, inflight, orders, items, nextOrderId,
                   nextItemId>>

\* One order, placed empty or with one unit of p2, gets and loses rows of
\* p1, is started and deleted, while products are removed from the catalog.
NextCatalog ==
    \/ \E u \in InterleavedUsers, n \in NotesValues, l \in LifecycleLists :
           OrdersService_create(u, n, l)
    \/ \E u \in InterleavedUsers, o \in OrderIds : AddItem(o, WideItemDto, u)
    \/ \E u \in InterleavedUsers, o \in OrderIds, i \in ItemIds :
           RemoveItem(o, i, u)
    \/ \E o \in OrderIds : OrdersService_updateStatus(o, "preparing", "admin1")
    \/ \E u \in InterleavedUsers, o \in OrderIds : OrdersService_delete(o, u)
    \/ \E u \in InterleavedUsers, p \in RequestProductIds :
           ProductsService_delete(p, u)

SpecCatalog == Init /\ [][NextCatalog]_vars

\* ============================================================== properties
MayAccess(u, o) == UserRole(u) # "customer" \/ orders[o].customer_id = u

StoreUnchanged == orders' = orders /\ items' = items

\* C1: a staff updateStatus on an existing order succeeds exactly for
\* pending->preparing, preparing->ready and ready->picked_up; every other
\* pair fails with 400 'Invalid status transition' and nothing is written.
CanonicalTransitions ==
    {<<"pending", "preparing">>, <<"preparing", "ready">>,
     <<"ready", "picked_up">>}

C2_DeleteOnlyWhilePending ==
    [][response'.op = "delete" =>
        \A u \in Users, o \in DOMAIN orders :
            \/ response'.role # UserRole(u)
            \/ ~MayAccess(u, o)
            \/ IF orders[o].status = "pending"
               THEN /\ response'.status = 204
                    /\ o \notin DOMAIN orders'
                    /\ ItemsOf(items', o) = {}
               ELSE /\ response'.status = 400
                    /\ response'.message = "Only pending orders can be deleted"
                    /\ StoreUnchanged
            \/ ~OrdersService_delete(o, u)]_vars

\* a staff delete was refused on a non-pending order that has item rows
C2_Witness ==
    /\ response.op = "delete"
    /\ response.role \in {"cashier", "admin"}
    /\ response.status = 400
    /\ \E o \in DOMAIN orders :
          orders[o].status # "pending" /\ ItemsOf(items, o) # {}

\* C3: a customer who is not the order's customer gets 403 from getById,
\* update, delete, listForOrder, addItem, updateItem and removeItem in every
\* status and nothing is written; staff never get 403 from these operations.
OwnerCheckedOps ==
    {"findById", "update", "delete", "findByOrderId", "addItem",
     "updateItem", "removeItem"}

OwnerCheckedRequest(op, o, u) ==
    CASE op = "findById" -> OrdersService_findById(o, u)
      [] op = "update" -> \E n \in NotesValues :
                             OrdersService_update(o, [notes |-> n], u)
      [] op = "delete" -> OrdersService_delete(o, u)
      [] op = "findByOrderId" -> OrderItemsService_findByOrderId(o, u)
      [] op = "addItem" -> \E d \in ItemDtos : AddItem(o, d, u)
      [] op = "updateItem" ->
             \E i \in ItemIds, q \in 0..MaxQuantity :
                 UpdateItem(o, i, [quantity |-> q], u)
      [] op = "removeItem" -> \E i \in ItemIds : RemoveItem(o, i, u)
      [] OTHER -> FALSE

C3_CrossOwnerForbidden ==
    [][response'.op \in OwnerCheckedOps =>
        /\ \A u \in Users \ Staff, o \in DOMAIN orders :
              (response'.role = UserRole(u)
                  /\ orders[o].customer_id # u
                  /\ ~(response'.status = 403 /\ StoreUnchanged))
                  => ~OwnerCheckedRequest(response'.op, o, u)
        /\ response'.role # "customer" => response'.status # 403]_vars

\* a customer was refused with 403 on an item add to an order that is no
\* longer pending
C3_Witness ==
    /\ response.op = "addItem"
    /\ response.role = "customer"
    /\ response.status = 403
    /\ \E o \in DOMAIN orders : orders[o].status = "ready"

\* C4: there is never more than one order_items row for an (order, product)
\* pair, and an addItem for a product that already has a row in the order
\* adds no row and raises that row's quantity by the requested quantity.
UniqueRows(its) ==
    \A r1 \in its, r2 \in its :
        (r1.order_id = r2.order_id /\ r1.product_id = r2.product_id)
            => r1 = r2

MergedInto(o, d) ==
    \E r \in items, r2 \in items' :
        /\ r.order_id = o /\ r.product_id = d.product_id
        /\ r2.id = r.id /\ r2.order_id = o /\ r2.product_id = d.product_id
        /\ r2.quantity = r.quantity + d.quantity
        /\ items' \ {r2} = items \ {r}

RECURSIVE RowSubtotals(_)
RowSubtotals(rows) ==
    IF rows = {} THEN 0
    ELSE LET r == CHOOSE x \in rows : TRUE
         IN r.subtotal + RowSubtotals(rows \ {r})

C5_TotalIsSumOfSubtotals ==
    \A o \in DOMAIN orders :
        orders[o].total_amount = RowSubtotals({r \in items : r.order_id = o})

\* a remove left another row behind and the total is that row's subtotal
C5_Witness ==
    /\ response.op = "removeItem"
    /\ response.status = 204
    /\ \E o \in DOMAIN orders :
          /\ Cardinality(ItemsOf(items, o)) = 1
          /\ orders[o].total_amount > 0

\* C6: a row's unit_price is the product's price when the row is inserted
\* and never changes; after every step the row's subtotal is its quantity
\* times that unit_price, whatever the product's price is by then.
C6_UnitPricePinned ==
    [][\A r2 \in items' :
          /\ r2.subtotal = r2.quantity * r2.unit_price
          /\ \A r \in items : r.id = r2.id => r2.unit_price = r.unit_price
          /\ (\A r \in items : r.id # r2.id) =>
                 r2.unit_price = products[r2.product_id].price]_vars

\* an add merged into a p1 row whose pinned price is no longer p1's price
C6_Witness ==
    /\ response.op = "addItem"
    /\ response.status = 201
    /\ \E r \in items :
          /\ r.product_id = "p1"
          /\ r.quantity >= 2
          /\ r.unit_price # products["p1"].price
          /\ r.subtotal = r.quantity * r.unit_price

\* C7: addItem, updateItem and removeItem on an order that is not pending,
\* by any actor that passes the ownership check (staff included), fail with
\* 400 'This action is only allowed for pending orders' and write nothing.
ItemMutation(op, o, u) ==
    CASE op = "addItem" -> \E d \in ItemDtos : AddItem(o, d, u)
      [] op = "updateItem" ->
             \E i \in ItemIds, q \in 0..MaxQuantity :
                 UpdateItem(o, i, [quantity |-> q], u)
      [] op = "removeItem" -> \E i \in ItemIds : RemoveItem(o, i, u)
      [] OTHER -> FALSE

C7_ItemsFrozenOutsidePending ==
    [][response'.op \in {"addItem", "updateItem", "removeItem"} =>
        \A u \in Users, o \in DOMAIN orders :
            \/ response'.role # UserRole(u)
            \/ orders[o].status = "pending"
            \/ ~MayAccess(u, o)
            \/ /\ response'.status = 400
               /\ response'.message
                      = "This action is only allowed for pending orders"
               /\ StoreUnchanged
            \/ ~ItemMutation(response'.op, o, u)]_vars

\* an admin's remove was refused on a non-pending order that has rows
C7_Witness ==
    /\ response.op = "removeItem"
    /\ response.role = "admin"
    /\ response.status = 400
    /\ response.message = "This action is only allowed for pending orders"
    /\ \E o \in DOMAIN orders :
          orders[o].status # "pending" /\ ItemsOf(items, o) # {}

\* C8: updateStatus by a customer on an existing order fails with 403 for
\* every requested status and leaves status and prepared_by as they were.
C8_CustomerStatusForbidden ==
    [][response'.op = "updateStatus" =>
        \A u \in Users \ Staff, o \in DOMAIN orders, s \in OrderStatus(flow) :
            \/ response'.role # UserRole(u)
            \/ (response'.status = 403 /\ StoreUnchanged)
            \/ ~OrdersService_updateStatus(o, s, u)]_vars

\* C9: create inserts one order with status pending, the caller as customer,
\* no preparer and a total that is 0 when no item row was added, for callers
\* of every role; no other operation adds an order.
C9_CreateInsertsPendingOrder ==
    [][/\ response'.op # "create" => DOMAIN orders' \subseteq DOMAIN orders
       /\ response'.op = "create" =>
             \A u \in Users, n \in NotesValues, l \in ItemLists :
                 \/ response'.role # UserRole(u)
                 \/ /\ DOMAIN orders' = DOMAIN orders \cup {nextOrderId}
                    /\ nextOrderId \notin DOMAIN orders
                    /\ orders'[nextOrderId].status = "pending"
                    /\ orders'[nextOrderId].customer_id = u
                    /\ orders'[nextOrderId].prepared_by = NULL
                    /\ (ItemsOf(items', nextOrderId) = {}
                           => orders'[nextOrderId].total_amount = 0)
                    /\ \A o \in DOMAIN orders : orders'[o] = orders[o]
                 \/ ~OrdersService_create(u, n, l)]_vars

\* a cashier created an order: it is pending, theirs, and totals 0
C9_Witness ==
    /\ response.op = "create"
    /\ response.role = "cashier"
    /\ \E o \in DOMAIN orders :
          /\ orders[o].customer_id = "cashier1"
          /\ orders[o].status = "pending"
          /\ orders[o].total_amount = 0

\* C10: create with an items list keeps the order whatever the adds do, and
\* tries every entry in order: the order ends with, per product, one row
\* holding the quantities of the entries that were accepted (product exists,
\* is available, stock is unlimited or at least the entry's quantity) and no
\* row for a product none of whose entries was accepted.
Accepted(d) ==
    /\ d.product_id \in DOMAIN products
    /\ products[d.product_id].is_available
    /\ \/ products[d.product_id].stock_quantity = NullStock
       \/ products[d.product_id].stock_quantity >= d.quantity

RECURSIVE AcceptedQuantity(_, _)
AcceptedQuantity(l, p) ==
    IF l = <<>> THEN 0
    ELSE (IF Head(l).product_id = p /\ Accepted(Head(l))
          THEN Head(l).quantity ELSE 0)
         + AcceptedQuantity(Tail(l), p)

RejectedEntries(l) == Cardinality({i \in DOMAIN l : ~Accepted(l[i])})

C10_CreateSkipsFailedItems ==
    [][response'.op = "create" =>
        \A u \in Users, n \in NotesValues, l \in ItemLists :
            \/ response'.role # UserRole(u)
            \/ /\ nextOrderId \in DOMAIN orders'
               /\ response'.status = 201
               /\ response'.failed = RejectedEntries(l)
               /\ \A p \in RequestProductIds :
                     LET rows == {r \in items' : r.order_id = nextOrderId
                                                 /\ r.product_id = p}
                     IN IF AcceptedQuantity(l, p) = 0
                        THEN rows = {}
                        ELSE /\ Cardinality(rows) = 1
                             /\ \A r \in rows :
                                   r.quantity = AcceptedQuantity(l, p)
               /\ \A r \in items' :
                     r.order_id = nextOrderId
                         => r.product_id \in RequestProductIds
            \/ ~OrdersService_create(u, n, l)]_vars

\* a create whose list had one accepted entry of quantity 2 and one failed
\* entry returned an order with exactly that one row
C10_Witness ==
    /\ response.op = "create"
    /\ response.status = 201
    /\ response.failed = 1
    /\ \E o \in DOMAIN orders :
          /\ Cardinality(ItemsOf(items, o)) = 1
          /\ \A r \in ItemsOf(items, o) : r.quantity = 2

\* C11: a customer's list holds only that customer's orders whatever the
\* customerId filter says: it is the list the same request gets when the
\* other customers' orders and rows are taken out of the store, and it is the
\* same for every customerId value; a staff list counts every order
\* matching the status filter, narrowed to one customer only when customerId
\* is given.
OwnOrders(u) == [i \in {j \in DOMAIN orders : orders[j].customer_id = u}
                    |-> orders[i]]

OwnItems(u) == {r \in items : r.order_id \in DOMAIN OwnOrders(u)}

MatchingOrders(q) ==
    {i \in DOMAIN orders :
        /\ q.status # "" => orders[i].status = q.status
        /\ q.customer_id # "" => orders[i].customer_id = q.customer_id}

C11_ListScopedToCustomer ==
    [][response'.op = "findAll" =>
        \E q \in {response'.request.query}, u \in {response'.request.user} :
            IF UserRole(u) = "customer"
            THEN /\ \A k \in DOMAIN response'.data :
                       response'.data[k].customer_id = u
                 /\ \E alone \in {findAllResult(OwnOrders(u), OwnItems(u),
                                                 q, u)} :
                       /\ response'.data = alone.data
                       /\ response'.total = alone.total
                 /\ \A c \in {"", "cust1", "cust2"} :
                       findAllResult(orders, items,
                                     [q EXCEPT !.customer_id = c], u)
                           = [data |-> response'.data,
                              total |-> response'.total]
            ELSE /\ response'.total = Cardinality(MatchingOrders(q))
                 /\ \A k \in DOMAIN response'.data :
                       response'.data[k].id \in MatchingOrders(q)]_vars

\* a customer's list came back with their one order while another
\* customer's order is in the store
C11_Witness ==
    /\ response.op = "findAll"
    /\ response.role = "customer"
    /\ response.total = 1
    /\ Len(response.data) = 1
    /\ \E o \in DOMAIN orders :
          orders[o].customer_id # response.data[1].customer_id

C13_AddItemProductChecks ==
    [][response'.op = "addItem" =>
        \A u \in Users, o \in DOMAIN orders, d \in ItemDtos :
            \/ response'.role # UserRole(u)
            \/ orders[o].status # "pending"
            \/ ~MayAccess(u, o)
            \/ IF d.product_id \notin DOMAIN products
               THEN /\ response'.status = 404
                    /\ response'.message = "Product not found"
                    /\ StoreUnchanged
               ELSE IF ~products[d.product_id].is_available
               THEN /\ response'.status = 400
                    /\ response'.message = "Product is not available"
                    /\ StoreUnchanged
               ELSE IF /\ products[d.product_id].stock_quantity # NullStock
                       /\ products[d.product_id].stock_quantity < d.quantity
               THEN /\ response'.status = 400
                    /\ response'.message = "Insufficient stock"
                    /\ StoreUnchanged
               ELSE response'.status = 201
            \/ ~AddItem(o, d, u)]_vars

\* an add was refused for stock on a pending order that already has a row
C13_Witness ==
    /\ response.op = "addItem"
    /\ response.status = 400
    /\ response.message = "Insufficient stock"
    /\ \E o \in DOMAIN orders :
          /\ orders[o].status = "pending"
          /\ orders[o].total_amount > 0
          /\ ItemsOf(items, o) # {}

\* C14: updateItem and removeItem on a pending order the actor may access
\* fail with 404 and write nothing both when no row has the item id and
\* when the row with that id belongs to another order.
ItemRequest(op, o, i, u) ==
    IF op = "updateItem"
    THEN \E q \in 0..MaxQuantity : UpdateItem(o, i, [quantity |-> q], u)
    ELSE RemoveItem(o, i, u)

C14_ForeignItemNotFound ==
    [][response'.op \in {"updateItem", "removeItem"} =>
        \A u \in Users, o \in DOMAIN orders, i \in ItemIds :
            \/ response'.role # UserRole(u)
            \/ orders[o].status # "pending"
            \/ ~MayAccess(u, o)
            \/ \E r \in items : r.id = i /\ r.order_id = o
            \/ (response'.status = 404 /\ StoreUnchanged)
            \/ ~ItemRequest(response'.op, o, i, u)]_vars

\* C15: register with an email some user already has, ignoring case, fails
\* with 409 'Email already registered' and creates no user and no token;
\* any other register answers 201 with the created user's token; no two
\* users ever have the same email ignoring case.
UniqueEmails(usrs) ==
    \A i \in DOMAIN usrs, j \in DOMAIN usrs :
        toLowerCase(usrs[i].email) = toLowerCase(usrs[j].email) => i = j

C15_RegisterRejectsKnownEmail ==
    [][/\ UniqueEmails(users')
       /\ response'.op = "register" =>
             IF \E i \in DOMAIN users :
                   toLowerCase(users[i].email)
                       = toLowerCase(response'.request.email)
             THEN /\ response'.status = 409
                  /\ response'.message = "Email already registered"
                  /\ users' = users
                  /\ tokens' = tokens
             ELSE /\ response'.status = 201
                  /\ \E id \in DOMAIN users' \ DOMAIN users :
                        /\ DOMAIN users' = DOMAIN users \cup {id}
                        /\ users'[id].email
                               = toLowerCase(response'.request.email)
                        /\ Len(response'.data) = 1
                        /\ response'.data[1].sub = id
                        /\ response'.data[1] \in tokens']_vars

\* a register of A@x was refused because a@x is registered
C15_Witness ==
    /\ response.op = "register"
    /\ response.status = 409
    /\ response.request.email = "A@x"
    /\ \E i \in DOMAIN users : users[i].email = "a@x"

\* C16: a login that names an unregistered email and a login that names a
\* registered email with a wrong password get the same answer, 401 with
\* 'Invalid email or password'.
C16_FailedLoginUniform ==
    [][(/\ response'.op = "login"
        /\ \/ AuthRepository_findByEmail(users, response'.request.email) = {}
           \/ response'.request.password = WrongPassword)
          => /\ response'.status = 401
             /\ response'.message = "Invalid email or password"]_vars

\* C17: while a user's is_active is false, a login for that user fails with
\* 401 whatever the password and issues no token, and a request carrying a
\* token of that user is answered 401 and changes no user; a request with a
\* token of a user that is active (again) passes the token check.
C17_InactiveCannotAuthenticate ==
    [][/\ response'.op = "login" =>
             \A i \in AuthRepository_findByEmail(users,
                                                response'.request.email) :
                 ~users[i].is_active
                     => /\ response'.status = 401
                        /\ tokens' = tokens
       /\ response'.op \in {"getMe", "updateById"} =>
             \E t \in {response'.request.token} :
                 IF ~users[t.sub].is_active
                 THEN response'.status = 401 /\ users' = users
                 ELSE response'.status # 401
       /\ \A t \in tokens : t.sub \in DOMAIN users]_vars

\* a token issued to a user who was deactivated afterwards was refused
C17_Witness ==
    /\ response.op = "getMe"
    /\ response.status = 401
    /\ response.request.token \in tokens
    /\ response.request.token.sub = "u1"
    /\ ~users["u1"].is_active

\* C18: a user created by register has role customer and is active whatever
\* role the body asks for, and the role of an existing user changes only in
\* an update of that user made with the token of a user who is admin.
C18_RegisterCreatesCustomer ==
    [][/\ \A id \in DOMAIN users' \ DOMAIN users :
             /\ response'.op = "register"
             /\ users'[id].role = "customer"
             /\ users'[id].is_active
       /\ \A id \in DOMAIN users :
             users'[id].role # users[id].role
                 => /\ response'.op = "updateById"
                    /\ response'.request.id = id
                    /\ users[response'.request.token.sub].role = "admin"
                    /\ users[response'.request.token.sub].is_active]_vars

\* a register that asked for role admin created a customer
C18_Witness ==
    /\ response.op = "register"
    /\ response.status = 201
    /\ response.request.role = "admin"
    /\ users[response.data[1].sub].role = "customer"
    /\ users[response.data[1].sub].is_active

FiveStageSteps ==
    {<<"pending", "preparing">>, <<"preparing", "ready">>,
     <<"ready", "pickedup">>, <<"pickedup", "completed">>}

C21_StatusNeverMovesBack ==
    [][/\ \A o \in DOMAIN orders \cap DOMAIN orders' :
             \/ orders'[o].status = orders[o].status
             \/ <<orders[o].status, orders'[o].status>> \in CanonicalTransitions
       /\ \A o \in DOMAIN orders' \ DOMAIN orders :
             orders'[o].status = "pending"]_vars

\* C22: however a delete interleaves with updateStatus requests on the same
\* order, an order row is removed only while its stored status is pending:
\* a row whose status is preparing, ready or picked_up at the moment of the
\* removal stays.
C22_RemovedOnlyWhilePending ==
    [][\A o \in DOMAIN orders \ DOMAIN orders' :
          orders[o].status = "pending"]_vars

\* C23: however item requests and the item adds of create interleave with
\* updateStatus on the order, no item row of an order is inserted, changed
\* or deleted while the order's stored status is not pending, so its rows
\* and its total stay as they were when it became preparing.
C23_ItemsFixedAfterPending ==
    [][\A o \in DOMAIN orders \cap DOMAIN orders' :
          orders[o].status # "pending"
              => /\ ItemsOf(items', o) = ItemsOf(items, o)
                 /\ orders'[o].total_amount = orders[o].total_amount]_vars

\* C24: however addItem requests for one (order, product) pair interleave,
\* there is at most one row for the pair and every add that reports success
\* leaves the pair's row with the quantity it had before that write (0 when
\* there was no row) plus the requested quantity, so no increment is lost.
PairQuantity(its, req) ==
    LET rows == {r \in its : /\ r.order_id = req.order_id
                             /\ r.product_id = req.dto.product_id}
    IN IF rows = {} THEN 0 ELSE (CHOOSE r \in rows : TRUE).quantity

C25_RegisterRaceConflict ==
    [][/\ UniqueEmails(users')
       /\ \A s \in Slots :
             (inflight[s].op = "register" /\ inflight'[s].op = "idle")
                 => IF AuthRepository_emailExists(users, inflight[s].dto.email)
                    THEN response'.status = 409 /\ users' = users
                    ELSE /\ response'.status = 201
                         /\ Cardinality(DOMAIN users')
                                = Cardinality(DOMAIN users) + 1]_vars

\* C26: validateOrderAccess answers in a fixed order and writes nothing: 404
\* 'Order not found' for a missing order whatever the actor; else 403 for a
\* customer who is not the owner whatever the status; else, only where a
\* pending order is required (the item changes, not the item listing), 400
\* for a status other than pending; else the request goes on.  A customer
\* who is not the owner gets 403 on a non-pending order, never the 400.
AccessCheckedOps == {"findByOrderId", "addItem", "updateItem", "removeItem"}

AccessMessages ==
    {"Order not found", "You can only access your own orders",
     "This action is only allowed for pending orders"}

ExpectedAccess(op, o, u) ==
    IF o \notin DOMAIN orders
    THEN Result(404, "Order not found")
    ELSE IF UserRole(u) = "customer" /\ orders[o].customer_id # u
    THEN Result(403, "You can only access your own orders")
    ELSE IF op # "findByOrderId" /\ orders[o].status # "pending"
    THEN Result(400, "This action is only allowed for pending orders")
    ELSE OK

C26_AccessChecksInOrder ==
    [][response'.op \in AccessCheckedOps =>
        \A u \in Users, o \in OrderIds :
            \/ response'.role # UserRole(u)
            \/ IF ExpectedAccess(response'.op, o, u).status # 200
               THEN /\ response'.status
                          = ExpectedAccess(response'.op, o, u).status
                    /\ response'.message
                          = ExpectedAccess(response'.op, o, u).message
                    /\ StoreUnchanged
               ELSE /\ response'.message \notin AccessMessages
                    /\ response'.op = "findByOrderId"
                           => response'.status = 200 /\ StoreUnchanged
            \/ ~OwnerCheckedRequest(response'.op, o, u)]_vars

\* a customer's remove on another customer's order that is being prepared
\* and has a row was answered 403
C26_Witness ==
    /\ response.op = "removeItem"
    /\ response.role = "customer"
    /\ response.status = 403
    /\ response.message = "You can only access your own orders"
    /\ \E o \in DOMAIN orders :
          orders[o].status = "preparing" /\ ItemsOf(items, o) # {}

\* C27: a successful updateStatus leaves the id of the staff member who made
\* it in prepared_by, replacing the one of an earlier transition; a new
\* order and an order that is still pending have no prepared_by; prepared_by
\* is never a customer's id; and no other operation, nor a failed
\* updateStatus, changes it.
C27_PreparedByIsLastStaff ==
    [][/\ \A o \in DOMAIN orders' :
             /\ orders'[o].prepared_by \in Staff \cup {NULL}
             /\ (o \notin DOMAIN orders \/ orders'[o].status = "pending")
                    => orders'[o].prepared_by = NULL
             /\ (o \in DOMAIN orders
                    /\ orders'[o].prepared_by # orders[o].prepared_by)
                    => response'.op = "updateStatus" /\ response'.status = 200
       /\ response'.op = "updateStatus" =>
             \A u \in Users, o \in DOMAIN orders, s \in OrderStatus(flow) :
                 \/ response'.role # UserRole(u)
                 \/ IF response'.status = 200
                    THEN u \in Staff /\ orders'[o].prepared_by = u
                    ELSE orders' = orders
                 \/ ~OrdersService_updateStatus(o, s, u)]_vars

\* the cashier moved an order with a row on to ready and is its preparer
C27_Witness ==
    /\ response.op = "updateStatus"
    /\ response.role = "cashier"
    /\ response.status = 200
    /\ \E o \in DOMAIN orders :
          /\ orders[o].status = "ready"
          /\ orders[o].prepared_by = "cashier1"
          /\ orders[o].customer_id = "admin1"
          /\ ItemsOf(items, o) # {}

StockRefuses(p, q) ==
    /\ products[p].stock_quantity # NullStock
    /\ products[p].stock_quantity < q

RefusedForStock ==
    response'.status = 400 /\ response'.message = "Insufficient stock"

C30_ItemsReferenceOrderAndProduct ==
    [][/\ \A r \in items' :
             r.order_id \in DOMAIN orders' /\ r.product_id \in DOMAIN products'
       /\ (response'.op = "delete" /\ response'.status = 204)
             => \A o \in DOMAIN orders \ DOMAIN orders' :
                   ItemsOf(items, o) \cap items' = {}
       /\ response'.op = "deleteProduct"
             => /\ items' = items
                /\ (\E r \in items : r.product_id = response'.request.id)
                       => /\ response'.status \notin {200, 204}
                          /\ products' = products]_vars

\* the admin's delete of p1 failed while a row of a pending order holds p1
C30_Witness ==
    /\ response.op = "deleteProduct"
    /\ response.role = "admin"
    /\ response.status = 500
    /\ response.request.id = "p1"
    /\ "p1" \in DOMAIN products
    /\ "p3" \notin DOMAIN products
    /\ \E r \in items : r.product_id = "p1" /\ r.order_id \in DOMAIN orders

====
